---------------------------- MODULE Spec2Model ----------------------------
(***************************************************************************)
(* Demand paging simulator (src/demand.cpp): jobs are divided into pages,  *)
(* pages are loaded into frames on demand, and a full memory is relieved   *)
(* by FIFO or by an 8-bit aging approximation of LRU.  main() runs the     *)
(* simulation twice, first with FIFO and then with LRU.                    *)
(***************************************************************************)
EXTENDS Integers, Sequences, FiniteSets, TLC

VARIABLES
    pageSize,     \* main: int pageSize
    numFrames,    \* main: int numFrames
    numAccesses,  \* main: int numAccesses
    jobs,         \* main: vector<Job> jobs, <<[id, size], ...>>
    pc,           \* "call" (main is about to call simulateDemandPaging), "loop", "done", "error"
    replacement,  \* simulateDemandPaging: bool replacement (TRUE = FIFO)
    divRes,       \* job id -> divideIntoPages result [first |-> pages, second |-> PMT]
    JT,           \* JobTable: job id -> [id, size, PMT]
    MMT,          \* MemoryMapTable: frame -> [jobId, pageFrameNumber, pageNumber, busy]
    fifoQueue,    \* queue<int> fifoQueue
    pageFaults,   \* int pageFaults
    pageHits,     \* int pageHits
    access,       \* loop counter: number of completed iterations
    event,        \* what the last iteration drew and printed
    touchedAt,    \* history: <<job, page>> -> iteration of its last hit or load (0 = never)
    loadedAt,     \* history: <<job, page>> -> iteration of its last load (0 = never)
    stats,        \* main: the Stats the last call returned (fifoStats, then lruStats)
    recording,    \* whether the history variable trace is kept
    script,       \* the draws the generators are held to first (<<>>: every draw is free)
    trace         \* history: [fifo |-> accesses drawn by the FIFO run, lru |-> ... LRU run]

vars == <<pageSize, numFrames, numAccesses, jobs, pc, replacement, divRes, JT, MMT,
          fifoQueue, pageFaults, pageHits, access, event, touchedAt, loadedAt,
          stats, recording, script, trace>>

(***************************************************************************)
(* Bounds of the model and constants of the program.                       *)
(***************************************************************************)
MaxPageSize == 2
MaxJobSize == 2
MaxJobs == 2
MaxFrames == 2
MaxAccesses == 4
\* most pages of all jobs together
MaxPages == 3

\* SpecDivide: the largest job size and page size divided
MaxDivJobSize == 9
MaxDivPageSize == 6
\* SpecTrace: the most accesses of a run whose draws are recorded
MaxTraceAccesses == 2
\* SpecAged: the most pages and frames, the longest burst of hits that ends the
\* warm-up, and the most iterations explored after it
MaxAgedPages == 4
MaxAgedFrames == 3
MaxWarmHits == 8
MaxAgedFree == 3

\* page.referenced |= 0x80 / = 0x80
MSB == 128
\* uint8_t smallestRef = 0xFF
MaskMax == 255
\* pageFrameId = -1, pageNumber = -1, jobId = -1, lruFrame = -1, emptyFrame = -1
None == -1

(***************************************************************************)
(* divideIntoPages (lines 72-102).                                         *)
(***************************************************************************)
RECURSIVE DivideLoop(_, _, _, _)
\* while (size >= pageSize) { push Page{i, pageSize}; size -= pageSize; i++ }
DivideLoop(size, pgSize, i, res) ==
    IF size >= pgSize
    THEN DivideLoop(size - pgSize, pgSize, i + 1,
                    Append(res, [id |-> i, size |-> pgSize]))
    ELSE [size |-> size, i |-> i, res |-> res]

\* The PMT built from the pages: one row per page id
BuildPMT(res) ==
    [p \in {res[k].id : k \in 1..Len(res)} |->
        [pageNumber |-> p, pageFrameId |-> None, inMemory |-> FALSE, referenced |-> 0]]

\* mutant: the remainder page is forgotten
divideIntoPagesNoRemainder(j, pgSize) ==
    LET l == DivideLoop(j.size, pgSize, 0, <<>>)
    IN  [first |-> l.res, second |-> BuildPMT(l.res)]

divideIntoPages(j, pgSize) ==
    LET l == DivideLoop(j.size, pgSize, 0, <<>>)
        res == IF l.size # 0
               THEN Append(l.res, [id |-> l.i, size |-> l.size])
               ELSE l.res
    IN  [first |-> res, second |-> BuildPMT(res)]

(***************************************************************************)
(* Views of the tables.                                                    *)
(***************************************************************************)
\* every registered (job, page)
PagesOf(jt) == UNION {{<<j, p>> : p \in DOMAIN jt[j].PMT} : j \in DOMAIN jt}
Row(jt, q) == jt[q[1]].PMT[q[2]]
Resident(jt) == {q \in PagesOf(jt) : Row(jt, q).inMemory}
BusyFrames(mmt) == {f \in DOMAIN mmt : mmt[f].busy}

\* the draw and the printed outcome of an iteration; before the first: NoEvent
NoEvent == [kind |-> "NONE", jobId |-> None, pageNum |-> None, frame |-> None,
            oldJobId |-> None, oldPageNum |-> None]
NoStats == [pageFrames |-> 0, failRatio |-> <<0, 1>>, successRatio |-> <<0, 1>>,
            numAccesses |-> 0, pageFaults |-> 0, pageHits |-> 0]

(***************************************************************************)
(* Helpers of the replacement routines and of the access loop.             *)
(***************************************************************************)
\* mutant: the scan keeps the last free frame it sees (the break is missing)
FirstFreeFrameHighest(mmt) ==
    LET free == {f \in DOMAIN mmt : ~mmt[f].busy}
    IN  IF free = {} THEN None ELSE CHOOSE f \in free : \A g \in free : f >= g

\* mutant: the scan stops one frame short (i < numFrames - 1)
FirstFreeFrameShort(mmt) ==
    LET free == {f \in DOMAIN mmt : ~mmt[f].busy /\ f + 1 \in DOMAIN mmt}
    IN  IF free = {} THEN None ELSE CHOOSE f \in free : \A g \in free : f <= g

\* for (i = 0; i < numFrames; i++) if (!MMT[i].busy) { emptyFrame = i; break; }
FirstFreeFrame(mmt) ==
    LET free == {f \in DOMAIN mmt : ~mmt[f].busy}
    IN  IF free = {} THEN None ELSE CHOOSE f \in free : \A g \in free : f <= g

\* MMT[f].pageNumber = pageNum; MMT[f].jobId = jobId; MMT[f].busy = true
Occupy(mmt, f, jobId, pageNum) ==
    [mmt EXCEPT ![f] = [@ EXCEPT !.pageNumber = pageNum, !.jobId = jobId, !.busy = TRUE]]

\* mutant: the aging pass shifts by two bits
ShiftRightTwo(m) == m \div 4

\* referenced >>= 1 on a uint8_t
ShiftRight(m) == m \div 2

\* referenced |= 0x80 on a uint8_t
SetMSB(m) == IF m >= MSB THEN m ELSE m + MSB

\* mutant: the aging pass shifts the mask of every page, resident or not
AgeAllEvery(jt) ==
    [j \in DOMAIN jt |->
        [jt[j] EXCEPT !.PMT =
            [p \in DOMAIN jt[j].PMT |->
                [jt[j].PMT[p] EXCEPT !.referenced = ShiftRight(@)]]]]

\* Age all pages' referenced bits: every row with inMemory is shifted right
AgeAll(jt) ==
    [j \in DOMAIN jt |->
        [jt[j] EXCEPT !.PMT =
            [p \in DOMAIN jt[j].PMT |->
                IF jt[j].PMT[p].inMemory
                THEN [jt[j].PMT[p] EXCEPT !.referenced = ShiftRight(@)]
                ELSE jt[j].PMT[p]]]]

(***************************************************************************)
(* Updates of a page's row in its job's PMT.                               *)
(***************************************************************************)
\* mutant: the frame pointer of the page replaced is not cleared
MarkOutKeepFrame(jt, j, p) ==
    [jt EXCEPT ![j].PMT[p] = [@ EXCEPT !.inMemory = FALSE]]

\* FIFO: JT[j].PMT[p].inMemory = false; .pageFrameId = -1
MarkOut(jt, j, p) ==
    [jt EXCEPT ![j].PMT[p] = [@ EXCEPT !.inMemory = FALSE, !.pageFrameId = None]]

\* LRU: as MarkOut, and .referenced = 0
MarkOutClear(jt, j, p) ==
    [jt EXCEPT ![j].PMT[p] =
        [@ EXCEPT !.inMemory = FALSE, !.pageFrameId = None, !.referenced = 0]]

\* mutant: the page is given the frame but is not marked in memory
MarkInNoFlag(jt, j, p, f) ==
    [jt EXCEPT ![j].PMT[p] = [@ EXCEPT !.pageFrameId = f]]

\* FIFO: JT[j].PMT[p].pageFrameId = f; .inMemory = true
MarkIn(jt, j, p, f) ==
    [jt EXCEPT ![j].PMT[p] = [@ EXCEPT !.pageFrameId = f, !.inMemory = TRUE]]

\* LRU and the free-frame load: as MarkIn, and .referenced = 0x80
MarkInFresh(jt, j, p, f) ==
    [jt EXCEPT ![j].PMT[p] =
        [@ EXCEPT !.pageFrameId = f, !.inMemory = TRUE, !.referenced = MSB]]

(***************************************************************************)
(* FIFO (lines 127-179).  The result carries the tables, the queue, the    *)
(* frame returned, the page replaced (None if none) and whether the        *)
(* runtime_error was thrown.                                               *)
(***************************************************************************)
\* mutant: the newest frame of the queue is replaced (back() for front())
FIFOVictimNewest(q) == q[Len(q)]

\* int replacedFrame = fifoQueue.front()
FIFOVictim(q) == Head(q)

FIFO(jt, mmt, q, jobId, pageNum) ==
    LET e == FirstFreeFrame(mmt)
    IN  IF e # None
        THEN [JT |-> MarkIn(jt, jobId, pageNum, e),
              MMT |-> Occupy(mmt, e, jobId, pageNum),
              fifoQueue |-> Append(q, e),
              frame |-> e, oldJobId |-> None, oldPageNum |-> None,
              replaced |-> FALSE, thrown |-> FALSE]
        ELSE IF q = <<>>
        THEN [JT |-> jt, MMT |-> mmt, fifoQueue |-> q,
              frame |-> None, oldJobId |-> None, oldPageNum |-> None,
              replaced |-> FALSE, thrown |-> TRUE]
        ELSE
            LET replacedFrame == FIFOVictim(q)
                oldJobId == mmt[replacedFrame].jobId
                oldPageNum == mmt[replacedFrame].pageNumber
            IN  [JT |-> MarkIn(MarkOut(jt, oldJobId, oldPageNum),
                               jobId, pageNum, replacedFrame),
                 MMT |-> Occupy(mmt, replacedFrame, jobId, pageNum),
                 fifoQueue |-> Append(Tail(q), replacedFrame),
                 frame |-> replacedFrame, oldJobId |-> oldJobId,
                 oldPageNum |-> oldPageNum,
                 replaced |-> TRUE, thrown |-> FALSE]

(***************************************************************************)
(* LRU (lines 182-242).                                                    *)
(***************************************************************************)
RECURSIVE LRUScanNoUpdate(_, _, _, _, _)
\* mutant: smallestRef is not updated, so the last busy frame below 0xFF is taken
LRUScanNoUpdate(jt, mmt, i, lruFrame, smallestRef) ==
    IF i \notin DOMAIN mmt
    THEN lruFrame
    ELSE IF mmt[i].busy
    THEN LET ref == jt[mmt[i].jobId].PMT[mmt[i].pageNumber].referenced
         IN  IF ref < smallestRef
             THEN LRUScanNoUpdate(jt, mmt, i + 1, mmt[i].pageFrameNumber, smallestRef)
             ELSE LRUScanNoUpdate(jt, mmt, i + 1, lruFrame, smallestRef)
    ELSE LRUScanNoUpdate(jt, mmt, i + 1, lruFrame, smallestRef)

RECURSIVE LRUScanLastTie(_, _, _, _, _)
\* mutant: a later frame with an equal mask replaces the candidate
LRUScanLastTie(jt, mmt, i, lruFrame, smallestRef) ==
    IF i \notin DOMAIN mmt
    THEN lruFrame
    ELSE IF mmt[i].busy
    THEN LET ref == jt[mmt[i].jobId].PMT[mmt[i].pageNumber].referenced
         IN  IF ref <= smallestRef
             THEN LRUScanLastTie(jt, mmt, i + 1, mmt[i].pageFrameNumber, ref)
             ELSE LRUScanLastTie(jt, mmt, i + 1, lruFrame, smallestRef)
    ELSE LRUScanLastTie(jt, mmt, i + 1, lruFrame, smallestRef)

RECURSIVE LRUScan(_, _, _, _, _)
\* for (kv : MMT) if (busy && ref < smallestRef) { smallestRef = ref; lruFrame = frame }
LRUScan(jt, mmt, i, lruFrame, smallestRef) ==
    IF i \notin DOMAIN mmt
    THEN lruFrame
    ELSE IF mmt[i].busy
    THEN LET ref == jt[mmt[i].jobId].PMT[mmt[i].pageNumber].referenced
         IN  IF ref < smallestRef
             THEN LRUScan(jt, mmt, i + 1, mmt[i].pageFrameNumber, ref)
             ELSE LRUScan(jt, mmt, i + 1, lruFrame, smallestRef)
    ELSE LRUScan(jt, mmt, i + 1, lruFrame, smallestRef)

\* int lruFrame = -1; uint8_t smallestRef = 0xFF; scan in ascending frame order
LRUVictim(jt, mmt) == LRUScan(jt, mmt, 0, None, MaskMax)

LRU(jt, mmt, q, jobId, pageNum) ==
    LET e == FirstFreeFrame(mmt)
    IN  IF e # None
        THEN [JT |-> MarkInFresh(jt, jobId, pageNum, e),
              MMT |-> Occupy(mmt, e, jobId, pageNum),
              fifoQueue |-> q,
              frame |-> e, oldJobId |-> None, oldPageNum |-> None,
              replaced |-> FALSE, thrown |-> FALSE]
        ELSE
            LET lruFrame == LRUVictim(jt, mmt)
            IN  IF lruFrame = None
                THEN [JT |-> jt, MMT |-> mmt, fifoQueue |-> q,
                      frame |-> None, oldJobId |-> None, oldPageNum |-> None,
                      replaced |-> FALSE, thrown |-> TRUE]
                ELSE
                    LET oldJobId == mmt[lruFrame].jobId
                        oldPageNum == mmt[lruFrame].pageNumber
                    IN  [JT |-> MarkInFresh(MarkOutClear(jt, oldJobId, oldPageNum),
                                            jobId, pageNum, lruFrame),
                         MMT |-> Occupy(mmt, lruFrame, jobId, pageNum),
                         fifoQueue |-> q,
                         frame |-> lruFrame, oldJobId |-> oldJobId,
                         oldPageNum |-> oldPageNum,
                         replaced |-> TRUE, thrown |-> FALSE]

(***************************************************************************)
(* One iteration of the access loop of simulateDemandPaging (lines         *)
(* 313-375) for the drawn (jobId, pageNum), as a function of the state s   *)
(* of the run.  aged is the job table after the aging step.                *)
(***************************************************************************)
Outcome(kind, jobId, pageNum, frame, oldJobId, oldPageNum) ==
    [kind |-> kind, jobId |-> jobId, pageNum |-> pageNum, frame |-> frame,
     oldJobId |-> oldJobId, oldPageNum |-> oldPageNum]

\* mutant: a hit moves the page's frame to the back of the queue, as LRU would
HitPromote(s, aged, jobId, pageNum) ==
    LET f == aged[jobId].PMT[pageNum].pageFrameId
    IN  [s EXCEPT
            !.JT = [aged EXCEPT ![jobId].PMT[pageNum].referenced = SetMSB(@)],
            !.fifoQueue = Append(SelectSeq(@, LAMBDA g : g # f), f),
            !.pageHits = @ + 1,
            !.access = @ + 1,
            !.touchedAt = [@ EXCEPT ![<<jobId, pageNum>>] = s.access + 1],
            !.event = Outcome("HIT", jobId, pageNum, f, None, None)]

\* mutant: a hit is printed but not counted
HitUncounted(s, aged, jobId, pageNum) ==
    [s EXCEPT
        !.JT = [aged EXCEPT ![jobId].PMT[pageNum].referenced = SetMSB(@)],
        !.access = @ + 1,
        !.touchedAt = [@ EXCEPT ![<<jobId, pageNum>>] = s.access + 1],
        !.event = Outcome("HIT", jobId, pageNum, aged[jobId].PMT[pageNum].pageFrameId,
                          None, None)]

\* if (page.inMemory) { pageHits++; page.referenced |= 0x80; }
Hit(s, aged, jobId, pageNum) ==
    [s EXCEPT
        !.JT = [aged EXCEPT ![jobId].PMT[pageNum].referenced = SetMSB(@)],
        !.pageHits = @ + 1,
        !.access = @ + 1,
        !.touchedAt = [@ EXCEPT ![<<jobId, pageNum>>] = s.access + 1],
        !.event = Outcome("HIT", jobId, pageNum, aged[jobId].PMT[pageNum].pageFrameId,
                          None, None)]

\* mutant: the frame loaded is not pushed onto the FIFO queue
LoadFreeNoPush(s, aged, jobId, pageNum, emptyFrame) ==
    [s EXCEPT
        !.JT = MarkInFresh(aged, jobId, pageNum, emptyFrame),
        !.MMT = Occupy(s.MMT, emptyFrame, jobId, pageNum),
        !.pageFaults = @ + 1,
        !.access = @ + 1,
        !.touchedAt = [@ EXCEPT ![<<jobId, pageNum>>] = s.access + 1],
        !.loadedAt = [@ EXCEPT ![<<jobId, pageNum>>] = s.access + 1],
        !.event = Outcome("LOADED", jobId, pageNum, emptyFrame, None, None)]

\* pageFaults++; if (emptyFrame != -1) { load the page into emptyFrame }
LoadFree(s, aged, jobId, pageNum, emptyFrame) ==
    [s EXCEPT
        !.JT = MarkInFresh(aged, jobId, pageNum, emptyFrame),
        !.MMT = Occupy(s.MMT, emptyFrame, jobId, pageNum),
        !.fifoQueue = Append(@, emptyFrame),
        !.pageFaults = @ + 1,
        !.access = @ + 1,
        !.touchedAt = [@ EXCEPT ![<<jobId, pageNum>>] = s.access + 1],
        !.loadedAt = [@ EXCEPT ![<<jobId, pageNum>>] = s.access + 1],
        !.event = Outcome("LOADED", jobId, pageNum, emptyFrame, None, None)]

\* pageFaults++; else { if (replacement) FIFO(...); else LRU(...); }
LoadReplace(s, aged, repl, jobId, pageNum) ==
    LET r == IF repl THEN FIFO(aged, s.MMT, s.fifoQueue, jobId, pageNum)
                     ELSE LRU(aged, s.MMT, s.fifoQueue, jobId, pageNum)
    IN  IF r.thrown
        THEN [s EXCEPT
                !.JT = aged,
                !.pageFaults = @ + 1,
                !.thrown = TRUE,
                !.event = Outcome("THROWN", jobId, pageNum, None, None, None)]
        ELSE [s EXCEPT
                !.JT = r.JT,
                !.MMT = r.MMT,
                !.fifoQueue = r.fifoQueue,
                !.pageFaults = @ + 1,
                !.access = @ + 1,
                !.touchedAt = [@ EXCEPT ![<<jobId, pageNum>>] = s.access + 1],
                !.loadedAt = [@ EXCEPT ![<<jobId, pageNum>>] = s.access + 1],
                !.event = Outcome(IF r.replaced THEN "REPLACED" ELSE "LOADED",
                                  jobId, pageNum, r.frame, r.oldJobId, r.oldPageNum)]

Iteration(s, repl, jobId, pageNum) ==
    LET aged == AgeAll(s.JT)
        emptyFrame == FirstFreeFrame(s.MMT)
    IN  IF aged[jobId].PMT[pageNum].inMemory
        THEN Hit(s, aged, jobId, pageNum)
        ELSE IF emptyFrame # None
        THEN LoadFree(s, aged, jobId, pageNum, emptyFrame)
        ELSE LoadReplace(s, aged, repl, jobId, pageNum)

\* if (pageKeys.empty()) continue;
SkipIteration(s, jobId) ==
    [s EXCEPT !.access = @ + 1,
              !.event = Outcome("SKIP", jobId, None, None, None, None)]

(***************************************************************************)
(* The state of a run right after the set-up part of simulateDemandPaging  *)
(* (lines 257-311).                                                        *)
(***************************************************************************)
JobIdsOf(js) == {js[k].id : k \in 1..Len(js)}
JobWithId(js, id) == CHOOSE k \in 1..Len(js) : js[k].id = id

DivideAll(js, pgSize) ==
    [id \in JobIdsOf(js) |-> divideIntoPages(js[JobWithId(js, id)], pgSize)]

InitialJT(js, dr) ==
    [id \in JobIdsOf(js) |->
        [id |-> id, size |-> js[JobWithId(js, id)].size, PMT |-> dr[id].second]]

InitialMMT(nFrames) ==
    [i \in 0..(nFrames - 1) |->
        [jobId |-> None, pageFrameNumber |-> i, pageNumber |-> None, busy |-> FALSE]]

\* totalPages++ for every page of every job
TotalPages(js, pgSize) == Cardinality(PagesOf(InitialJT(js, DivideAll(js, pgSize))))

\* int internalFrag = pageSize - pages.back().size
InternalFrag(dr, pgSize) == pgSize - dr.first[Len(dr.first)].size

FreshRun(js, pgSize, nFrames) ==
    LET dr == DivideAll(js, pgSize)
        jt == InitialJT(js, dr)
    IN  [JT |-> jt,
         MMT |-> InitialMMT(nFrames),
         fifoQueue |-> <<>>,
         pageFaults |-> 0,
         pageHits |-> 0,
         access |-> 0,
         event |-> NoEvent,
         touchedAt |-> [q \in PagesOf(jt) |-> 0],
         loadedAt |-> [q \in PagesOf(jt) |-> 0],
         thrown |-> FALSE]

\* The run's state as a record, and its assignment to the variables.
Cur ==
    [JT |-> JT, MMT |-> MMT, fifoQueue |-> fifoQueue, pageFaults |-> pageFaults,
     pageHits |-> pageHits, access |-> access, event |-> event,
     touchedAt |-> touchedAt, loadedAt |-> loadedAt, thrown |-> FALSE]

Becomes(s) ==
    /\ JT' = s.JT
    /\ MMT' = s.MMT
    /\ fifoQueue' = s.fifoQueue
    /\ pageFaults' = s.pageFaults
    /\ pageHits' = s.pageHits
    /\ access' = s.access
    /\ event' = s.event
    /\ touchedAt' = s.touchedAt
    /\ loadedAt' = s.loadedAt

(***************************************************************************)
(* Stats (lines 384-394); a ratio is kept as <<numerator, denominator>>.   *)
(***************************************************************************)
MakeStats(nFrames, nAccesses, faults, hits) ==
    [pageFrames |-> nFrames,
     failRatio |-> <<faults, nAccesses>>,
     successRatio |-> <<nAccesses - faults, nAccesses>>,
     numAccesses |-> nAccesses,
     pageFaults |-> faults,
     pageHits |-> hits]

(***************************************************************************)
(* Inputs read by main (lines 401-432): all positive, job ids 0..numJobs-1.*)
(***************************************************************************)
JobVectors(maxJobs, maxSize) ==
    UNION {{[k \in 1..n |-> [id |-> k - 1, size |-> sz[k]]] : sz \in [1..n -> 1..maxSize]}
           : n \in 1..maxJobs}

numJobs == Len(jobs)

Blank ==
    /\ divRes = <<>>
    /\ JT = <<>>
    /\ MMT = <<>>
    /\ fifoQueue = <<>>
    /\ pageFaults = 0
    /\ pageHits = 0
    /\ access = 0
    /\ event = NoEvent
    /\ touchedAt = <<>>
    /\ loadedAt = <<>>
    /\ stats = NoStats
    /\ trace = [fifo |-> <<>>, lru |-> <<>>]

Init ==
    /\ pageSize \in 1..MaxPageSize
    /\ numFrames \in 1..MaxFrames
    /\ numAccesses \in 1..MaxAccesses
    /\ jobs \in JobVectors(MaxJobs, MaxJobSize)
    /\ TotalPages(jobs, pageSize) <= MaxPages
    /\ pc = "call"
    /\ replacement = TRUE
    /\ recording = FALSE
    /\ script = <<>>
    /\ Blank

(***************************************************************************)
(* Actions.                                                                *)
(***************************************************************************)
\* simulateDemandPaging, lines 257-311: divide the jobs, initialise the memory.
\* main has printed the Stats of the call before and does not read them again.
Setup ==
    /\ pc = "call"
    /\ divRes' = DivideAll(jobs, pageSize)
    /\ Becomes(FreshRun(jobs, pageSize, numFrames))
    /\ pc' = "loop"
    /\ stats' = NoStats
    /\ UNCHANGED <<pageSize, numFrames, numAccesses, jobs, replacement,
                   recording, script, trace>>

Record(tr, repl, jobId, pageNum) ==
    IF repl THEN [tr EXCEPT !.fifo = Append(@, <<jobId, pageNum>>)]
            ELSE [tr EXCEPT !.lru = Append(@, <<jobId, pageNum>>)]

\* one iteration of the loop, lines 313-375: jobDist and pageDist draw the access
Access ==
    /\ pc = "loop"
    /\ access < numAccesses
    /\ \E jobId \in 0..(numJobs - 1) :
         LET pageKeys == DOMAIN JT[jobId].PMT
         IN  IF pageKeys = {}
             THEN /\ Becomes(SkipIteration(Cur, jobId))
                  /\ pc' = pc
                  /\ trace' = trace
                  /\ script' = script
             ELSE \E pageNum \in pageKeys :
                    LET s == Iteration(Cur, replacement, jobId, pageNum)
                    IN  /\ script # <<>> => Head(script) = <<jobId, pageNum>>
                        /\ script' = IF script # <<>> THEN Tail(script) ELSE script
                        /\ Becomes(s)
                        /\ pc' = IF s.thrown THEN "error" ELSE pc
                        /\ trace' = IF recording
                                    THEN Record(trace, replacement, jobId, pageNum)
                                    ELSE trace
    /\ UNCHANGED <<pageSize, numFrames, numAccesses, jobs, replacement, divRes,
                   stats, recording>>

\* the loop ends, lines 377-394, and main goes on, lines 440-455
Return ==
    /\ pc = "loop"
    /\ access >= numAccesses
    /\ stats' = MakeStats(numFrames, numAccesses, pageFaults, pageHits)
    /\ IF replacement
       THEN /\ replacement' = FALSE
            /\ pc' = "call"
       ELSE /\ replacement' = replacement
            /\ pc' = "done"
    /\ UNCHANGED <<pageSize, numFrames, numAccesses, jobs, divRes, JT, MMT, fifoQueue,
                   pageFaults, pageHits, access, event, touchedAt, loadedAt,
                   recording, script, trace>>

Next == Setup \/ Access \/ Return

Spec == Init /\ [][Next]_vars

(***************************************************************************)
(* Vocabulary of the properties.                                           *)
(***************************************************************************)
Occupant(mmt, f) == <<mmt[f].jobId, mmt[f].pageNumber>>
FreeFrames(mmt) == {f \in DOMAIN mmt : ~mmt[f].busy}
Lowest(S) == CHOOSE f \in S : \A g \in S : f <= g
\* the step is an iteration of the access loop (completed, or ended by a throw)
IterationStep == pc = "loop" /\ (access' = access + 1 \/ pc' = "error")
\* the (job, page) the iteration of the step drew
Drawn == <<event'.jobId, event'.pageNum>>
\* the pages that were resident before the step and are not after it
Evicted == Resident(JT) \ Resident(JT')
\* the (job, page) that have been accessed in the run so far
Accessed == {q \in DOMAIN touchedAt : touchedAt[q] > 0}

(***************************************************************************)
(* C1: resident pages and busy frames are in one-to-one correspondence: a  *)
(* page is inMemory iff its pageFrameId is a busy frame whose MMT row      *)
(* names that page; every busy frame's occupant is resident in that frame; *)
(* a non-resident page has pageFrameId -1; no page is in two frames and    *)
(* at most numFrames pages are resident.                                   *)
(***************************************************************************)
C1_Correspondence ==
    /\ \A q \in PagesOf(JT) :
         Row(JT, q).inMemory <=>
            /\ Row(JT, q).pageFrameId \in DOMAIN MMT
            /\ MMT[Row(JT, q).pageFrameId].busy
            /\ Occupant(MMT, Row(JT, q).pageFrameId) = q
    /\ \A f \in BusyFrames(MMT) :
         /\ Occupant(MMT, f) \in PagesOf(JT)
         /\ Row(JT, Occupant(MMT, f)).inMemory
         /\ Row(JT, Occupant(MMT, f)).pageFrameId = f
    /\ \A q \in PagesOf(JT) : ~Row(JT, q).inMemory => Row(JT, q).pageFrameId = None
    /\ \A f, g \in BusyFrames(MMT) : Occupant(MMT, f) = Occupant(MMT, g) => f = g
    /\ Cardinality(Resident(JT)) <= numFrames
    /\ DOMAIN MMT \subseteq 0..(numFrames - 1)

\* a page has just been replaced in a memory of two or more frames, all busy
C1_Witness ==
    /\ event.kind = "REPLACED"
    /\ numFrames >= 2
    /\ Cardinality(Resident(JT)) = numFrames
    /\ Cardinality(PagesOf(JT)) > numFrames

(***************************************************************************)
(* C2: an access is a hit exactly when the drawn page was resident right   *)
(* before it and a fault otherwise, and after any access the drawn page is *)
(* resident.                                                               *)
(***************************************************************************)
C2_HitIffResident ==
    [][IterationStep /\ event'.kind # "SKIP" =>
          /\ Row(JT, Drawn).inMemory =>
                /\ event'.kind = "HIT"
                /\ pageHits' = pageHits + 1
                /\ pageFaults' = pageFaults
          /\ ~Row(JT, Drawn).inMemory =>
                /\ event'.kind \in {"LOADED", "REPLACED"}
                /\ pageFaults' = pageFaults + 1
                /\ pageHits' = pageHits
          /\ Row(JT', Drawn).inMemory
          /\ Row(JT', Drawn).pageFrameId \in BusyFrames(MMT')]_vars

\* a hit after a replacement has happened in the run
C2_Witness ==
    /\ event.kind = "HIT"
    /\ pageFaults > numFrames
    /\ pageHits >= 1

(***************************************************************************)
(* C3: on a fault with a free frame the page goes into the lowest free     *)
(* frame, no resident page loses residency and the frame is appended to    *)
(* the FIFO queue; a page is evicted only when no frame is free.           *)
(***************************************************************************)
C3_FreeFrameFirst ==
    [][IterationStep /\ event'.kind # "SKIP" /\ ~Row(JT, Drawn).inMemory =>
          /\ FreeFrames(MMT) # {} =>
                /\ Row(JT', Drawn).inMemory
                /\ Row(JT', Drawn).pageFrameId = Lowest(FreeFrames(MMT))
                /\ MMT'[Lowest(FreeFrames(MMT))].busy
                /\ Occupant(MMT', Lowest(FreeFrames(MMT))) = Drawn
                /\ Evicted = {}
                /\ fifoQueue' = Append(fifoQueue, Lowest(FreeFrames(MMT)))
          /\ Evicted # {} => FreeFrames(MMT) = {}]_vars

\* a page has been loaded into frame 1 while a higher frame was free as well
C3_Witness ==
    /\ event.kind = "LOADED"
    /\ event.frame = 1
    /\ MMT[0].busy
    /\ numFrames >= 2

(***************************************************************************)
(* C4: under FIFO a fault with no free frame evicts the resident page that *)
(* was loaded earliest, the occupant of the frame at the front of the      *)
(* queue; the new page takes that frame and the frame goes to the back.    *)
(***************************************************************************)
C4_FIFOEvictsOldest ==
    [][/\ IterationStep /\ event'.kind # "SKIP"
       /\ replacement
       /\ ~Row(JT, Drawn).inMemory
       /\ FreeFrames(MMT) = {}
       =>
          /\ fifoQueue # <<>>
          /\ MMT[Head(fifoQueue)].busy
          /\ Evicted = {Occupant(MMT, Head(fifoQueue))}
          /\ \A v \in Evicted : \A r \in Resident(JT) \ {v} : loadedAt[v] < loadedAt[r]
          /\ Row(JT', Drawn).inMemory
          /\ Row(JT', Drawn).pageFrameId = Head(fifoQueue)
          /\ Occupant(MMT', Head(fifoQueue)) = Drawn
          /\ fifoQueue' = Append(Tail(fifoQueue), Head(fifoQueue))]_vars

\* FIFO has replaced a page after a hit on the page that was loaded first
C4_Witness ==
    /\ replacement
    /\ event.kind = "REPLACED"
    /\ pageHits >= 1
    /\ numFrames >= 2

(***************************************************************************)
(* C6: a hit never promotes under FIFO: a hit leaves the queue, every      *)
(* frame's occupant and busy flag and every page's inMemory and            *)
(* pageFrameId as they were; it changes the hit counter and the masks only.*)
(***************************************************************************)
C6_FIFOHitNoPromotion ==
    [][/\ IterationStep /\ event'.kind # "SKIP"
       /\ replacement
       /\ Row(JT, Drawn).inMemory
       =>
          /\ fifoQueue' = fifoQueue
          /\ MMT' = MMT
          /\ PagesOf(JT') = PagesOf(JT)
          /\ \A q \in PagesOf(JT) :
                /\ Row(JT', q).inMemory = Row(JT, q).inMemory
                /\ Row(JT', q).pageFrameId = Row(JT, q).pageFrameId
                /\ Row(JT', q).pageNumber = Row(JT, q).pageNumber
          /\ pageHits' = pageHits + 1
          /\ pageFaults' = pageFaults
          /\ loadedAt' = loadedAt]_vars

\* under FIFO the page at the front of a queue of two frames has been hit
C6_Witness ==
    /\ replacement
    /\ event.kind = "HIT"
    /\ Len(fifoQueue) >= 2
    /\ event.frame = Head(fifoQueue)

(***************************************************************************)
(* C7: with at least as many frames as pages of all jobs, no replacement   *)
(* routine is invoked, a resident page stays resident, and the fault count *)
(* after any prefix is the number of distinct (job, page) accessed in it.  *)
(***************************************************************************)
C7_EnoughFrames ==
    [][IterationStep /\ numFrames >= Cardinality(PagesOf(JT)) =>
          /\ event'.kind \in {"HIT", "LOADED"}
          /\ FirstFreeFrame(MMT) # None \/ Row(JT, Drawn).inMemory
          /\ Evicted = {}
          /\ pageFaults' = Cardinality(Accessed')
          /\ Accessed' = Accessed \cup {Drawn}]_vars

\* two pages, two frames: both pages have been loaded and one has been hit
C7_Witness ==
    /\ pc = "loop"
    /\ numFrames = 2
    /\ Cardinality(PagesOf(JT)) = 2
    /\ pageFaults = 2
    /\ pageHits >= 1

(***************************************************************************)
(* C9: every iteration is counted as exactly one hit or one fault, so the  *)
(* Stats returned have pageHits + pageFaults = numAccesses, failRatio =    *)
(* pageFaults / numAccesses and successRatio = pageHits / numAccesses =    *)
(* 1 - failRatio (ratios compared as fractions).                           *)
(***************************************************************************)
RatioEq(a, b) == a[1] * b[2] = b[1] * a[2]
Returned == pc = "done" \/ (pc = "call" /\ ~replacement)

C9_Accounting ==
    /\ pc = "loop" => pageHits + pageFaults = access
    /\ Returned =>
          /\ stats.numAccesses = numAccesses
          /\ stats.pageHits + stats.pageFaults = numAccesses
          /\ RatioEq(stats.failRatio, <<stats.pageFaults, numAccesses>>)
          /\ RatioEq(stats.successRatio, <<stats.pageHits, numAccesses>>)
          /\ RatioEq(stats.successRatio,
                     <<stats.failRatio[2] - stats.failRatio[1], stats.failRatio[2]>>)

\* a run has returned Stats that count hits as well as faults
C9_Witness ==
    /\ Returned
    /\ stats.pageHits >= 1
    /\ stats.pageFaults >= 2

(***************************************************************************)
(* SpecDivide: divideIntoPages on one job, over a wider range of job and   *)
(* page sizes than Spec affords; the set-up of a call applies it.          *)
(***************************************************************************)
InitDivide ==
    /\ pageSize \in 1..MaxDivPageSize
    /\ numFrames = 1
    /\ numAccesses = 1
    /\ jobs \in JobVectors(1, MaxDivJobSize)
    /\ pc = "call"
    /\ replacement = TRUE
    /\ recording = FALSE
    /\ script = <<>>
    /\ Blank

NextDivide == Setup

SpecDivide == InitDivide /\ [][NextDivide]_vars

(***************************************************************************)
(* SpecTrace: main as in Spec, with the draws of both runs recorded.       *)
(***************************************************************************)
InitTrace ==
    /\ pageSize \in 1..MaxPageSize
    /\ numFrames \in 1..MaxFrames
    /\ numAccesses \in 1..MaxTraceAccesses
    /\ jobs \in JobVectors(MaxJobs, MaxJobSize)
    /\ TotalPages(jobs, pageSize) <= MaxPages
    /\ pc = "call"
    /\ replacement = TRUE
    /\ recording = TRUE
    /\ script = <<>>
    /\ Blank

SpecTrace == InitTrace /\ [][Next]_vars

(***************************************************************************)
(* SpecAged: main at its second call, the LRU run, with the generators     *)
(* held to a warm-up that is long enough for 8-bit masks to age to 0: the  *)
(* first pages of the job are drawn in order, one per frame, one of them   *)
(* is drawn again and then one of them is drawn up to MaxWarmHits times.   *)
(* After the warm-up every draw is free, as in Spec.                       *)
(***************************************************************************)
WarmUp(k, a, b, h) ==
    [i \in 1..k |-> <<0, i - 1>>] \o <<(<<0, a>>)>> \o [i \in 1..h |-> <<0, b>>]

InitAged ==
    /\ pageSize = 1
    /\ numFrames \in 1..MaxAgedFrames
    /\ \E n \in (numFrames + 1)..MaxAgedPages :
         jobs = <<[id |-> 0, size |-> n]>>
    /\ \E a, b \in 0..(numFrames - 1), h \in 0..MaxWarmHits :
         script = WarmUp(numFrames, a, b, h)
    /\ numAccesses = Len(script) + MaxAgedFree
    /\ pc = "call"
    /\ replacement = FALSE
    /\ recording = FALSE
    /\ Blank

SpecAged == InitAged /\ [][Next]_vars

(***************************************************************************)
(* C5 as claimed: under LRU a fault with no free frame evicts the resident *)
(* page whose most recent touch is the oldest, for every trace and every   *)
(* frame count.                                                            *)
(***************************************************************************)
LRUReplaceStep ==
    /\ IterationStep /\ event'.kind # "SKIP"
    /\ ~replacement
    /\ ~Row(JT, Drawn).inMemory
    /\ FreeFrames(MMT) = {}

C5_LRUEvictsOldestTouch ==
    [][LRUReplaceStep =>
          /\ Cardinality(Evicted) = 1
          /\ \A v \in Evicted : \A r \in Resident(JT) \ {v} :
                touchedAt[v] < touchedAt[r]]_vars

(***************************************************************************)
(* C5 as amended: the page evicted is the resident page whose most recent  *)
(* touch is the oldest provided at most one resident page has gone 8 or    *)
(* more accesses (the faulting one included) without a touch; when several *)
(* have, the page evicted is the one of them in the lowest frame.          *)
(***************************************************************************)
\* the resident pages whose last touch lies 8 or more accesses before the next one
Stale == {r \in Resident(JT) : (access + 1) - touchedAt[r] >= 8}

C5_LRUEvictsOldestUnlessStale ==
    [][LRUReplaceStep =>
          /\ Cardinality(Evicted) = 1
          /\ \A v \in Evicted :
                IF Cardinality(Stale) <= 1
                THEN \A r \in Resident(JT) \ {v} : touchedAt[v] < touchedAt[r]
                ELSE /\ v \in Stale
                     /\ \A r \in Stale :
                           Row(JT, v).pageFrameId <= Row(JT, r).pageFrameId]_vars

\* LRU has just replaced, in a memory of three frames and after a hit, the page of
\* frame 1, whose last touch was older than that of every page now resident
C5_Witness ==
    /\ ~replacement
    /\ event.kind = "REPLACED"
    /\ numFrames >= 3
    /\ event.frame = 1
    /\ pageHits >= 1
    /\ \A r \in Resident(JT) : touchedAt[<<event.oldJobId, event.oldPageNum>>] < touchedAt[r]

(***************************************************************************)
(* C8 as claimed: the LRU run processes the same sequence of (jobId,       *)
(* pageNum) as the FIFO run before it.                                     *)
(***************************************************************************)
C8_SameTrace ==
    /\ Len(trace.lru) <= Len(trace.fifo)
    /\ \A k \in 1..Len(trace.lru) : trace.lru[k] = trace.fifo[k]

(***************************************************************************)
(* C10: for job size S and page size P divideIntoPages returns ceil(S/P)   *)
(* pages numbered from 0, all of size P except a last page of size S mod P *)
(* when that is not 0; the sizes sum to S; the internal fragmentation is 0 *)
(* when P divides S; each page has one PMT row with pageFrameId -1,        *)
(* inMemory false and mask 0.                                              *)
(***************************************************************************)
RECURSIVE SumSizes(_)
SumSizes(pages) == IF pages = <<>> THEN 0 ELSE Head(pages).size + SumSizes(Tail(pages))
CeilDiv(S, P) == (S + P - 1) \div P

C10_DivideIntoPages ==
    pc = "loop" =>
       \A k \in 1..Len(jobs) :
          LET S == jobs[k].size
              P == pageSize
              pages == divRes[jobs[k].id].first
              PMT == divRes[jobs[k].id].second
              n == Len(pages)
          IN  /\ n = CeilDiv(S, P)
              /\ \A i \in 1..n : pages[i].id = i - 1
              /\ \A i \in 1..(n - 1) : pages[i].size = P
              /\ pages[n].size = IF S % P # 0 THEN S % P ELSE P
              /\ SumSizes(pages) = S
              /\ InternalFrag(divRes[jobs[k].id], P) = IF S % P = 0 THEN 0 ELSE P - (S % P)
              /\ DOMAIN PMT = 0..(n - 1)
              /\ \A p \in DOMAIN PMT :
                    PMT[p] = [pageNumber |-> p, pageFrameId |-> -1,
                              inMemory |-> FALSE, referenced |-> 0]
              /\ JT[jobs[k].id].PMT = PMT

\* a job has been divided into full pages and a smaller last page
C10_Witness ==
    /\ pc = "loop"
    /\ Len(divRes[0].first) >= 3
    /\ divRes[0].first[Len(divRes[0].first)].size < pageSize

(***************************************************************************)
(* SpecScenario: main with page size 100, one job (id 0) of size 250, two  *)
(* frames and four accesses; the draws of both runs are free and recorded. *)
(***************************************************************************)
InitScenario ==
    /\ pageSize = 100
    /\ numFrames = 2
    /\ numAccesses = 4
    /\ jobs = <<[id |-> 0, size |-> 250]>>
    /\ pc = "call"
    /\ replacement = TRUE
    /\ recording = TRUE
    /\ script = <<>>
    /\ Blank

SpecScenario == InitScenario /\ [][Next]_vars

\* the access trace of the scenario: pages 0, 1, 2, 0 of job 0
Scenario == << <<0, 0>>, <<0, 1>>, <<0, 2>>, <<0, 0>> >>
\* the draws of the run that is under way or has just returned
RunTrace == IF pc = "call" \/ replacement THEN trace.fifo ELSE trace.lru
IsPrefix(s, w) == Len(s) <= Len(w) /\ s = SubSeq(w, 1, Len(s))

(***************************************************************************)
(* C11: in the scenario, under FIFO and under LRU alike, page 0 faults     *)
(* into frame 0, page 1 faults into frame 1, page 2 faults and evicts page *)
(* 0 from frame 0, the last access to page 0 faults again, and the run     *)
(* ends with 4 faults and 0 hits.                                          *)
(***************************************************************************)
C11_Scenario ==
    /\ pc = "loop" /\ IsPrefix(RunTrace, Scenario) =>
          /\ Len(RunTrace) = 1 =>
                /\ event.kind = "LOADED" /\ event.frame = 0
                /\ Occupant(MMT, 0) = <<0, 0>>
          /\ Len(RunTrace) = 2 =>
                /\ event.kind = "LOADED" /\ event.frame = 1
                /\ Occupant(MMT, 1) = <<0, 1>>
          /\ Len(RunTrace) = 3 =>
                /\ event.kind = "REPLACED" /\ event.frame = 0
                /\ event.oldJobId = 0 /\ event.oldPageNum = 0
                /\ Occupant(MMT, 0) = <<0, 2>>
                /\ ~Row(JT, <<0, 0>>).inMemory
          /\ Len(RunTrace) = 4 =>
                /\ event.kind = "REPLACED"
                /\ Row(JT, <<0, 0>>).inMemory
          /\ pageFaults = Len(RunTrace)
          /\ pageHits = 0
    /\ pc \in {"call", "done"} /\ RunTrace = Scenario =>
          /\ stats.pageFaults = 4
          /\ stats.pageHits = 0

\* both runs have drawn the scenario's trace and main is done
C11_Witness ==
    /\ pc = "done"
    /\ trace.fifo = Scenario
    /\ trace.lru = Scenario

\* a fault of either policy with every frame busy: FIFO or LRU is called
ReplaceStep ==
    /\ IterationStep /\ event'.kind # "SKIP"
    /\ ~Row(JT, Drawn).inMemory
    /\ FreeFrames(MMT) = {}

(***************************************************************************)
(* C12: with at least one frame and at least one page neither exception of *)
(* the replacement functions is thrown: when FIFO is called the queue is   *)
(* not empty, and when LRU is called its scan meets a busy frame whose     *)
(* occupant's mask is below 0xFF.                                          *)
(***************************************************************************)
C12_NoThrow ==
    [][/\ pc' # "error"
       /\ event'.kind # "THROWN"
       /\ ReplaceStep =>
             /\ replacement => fifoQueue # <<>>
             /\ ~replacement =>
                   /\ \E f \in BusyFrames(MMT) :
                         Row(AgeAll(JT), Occupant(MMT, f)).referenced < MaskMax
                   /\ LRUVictim(AgeAll(JT), MMT) # None
             /\ event'.kind = "REPLACED"]_vars

\* FIFO has replaced the page of the only frame of a one-frame memory
C12_Witness ==
    /\ pc = "loop"
    /\ replacement
    /\ numFrames = 1
    /\ event.kind = "REPLACED"
    /\ fifoQueue = <<0>>

\* the frames of a queue
QueueFrames(q) == {q[i] : i \in DOMAIN q}

(***************************************************************************)
(* C13: during the FIFO run the queue holds every busy frame exactly once  *)
(* and no free frame, in the order in which the pages that occupy them now *)
(* were loaded, the oldest at the front.                                   *)
(***************************************************************************)
C13_FIFOQueueOrder ==
    replacement /\ pc \in {"loop", "error"} =>
        /\ QueueFrames(fifoQueue) = BusyFrames(MMT)
        /\ Len(fifoQueue) = Cardinality(BusyFrames(MMT))
        /\ \A i, j \in DOMAIN fifoQueue :
              i < j => loadedAt[Occupant(MMT, fifoQueue[i])]
                          < loadedAt[Occupant(MMT, fifoQueue[j])]

\* FIFO, two frames: frame 0 was reloaded after frame 1, so that the queue is <<1, 0>>
C13_Witness ==
    /\ replacement
    /\ pc = "loop"
    /\ fifoQueue = <<1, 0>>
    /\ event.kind = "REPLACED"
    /\ pageHits > 0

\* the mask of the page in frame f when LRU scans, that is after the aging pass
ScannedMask(f) == Row(AgeAll(JT), Occupant(MMT, f)).referenced
\* the frames that lose their page in the step
VictimFrames == {Row(JT, v).pageFrameId : v \in Evicted}

(***************************************************************************)
(* C14: under LRU, on a fault with every frame busy, the victim is the     *)
(* busy frame whose occupant's mask is the smallest of all busy frames,    *)
(* and of several frames with that mask the one of lowest index.           *)
(***************************************************************************)
C14_LRUSmallestMask ==
    [][LRUReplaceStep =>
          /\ VictimFrames = {event'.frame}
          /\ \A v \in VictimFrames :
                /\ v \in BusyFrames(MMT)
                /\ \A f \in BusyFrames(MMT) :
                      /\ ScannedMask(v) <= ScannedMask(f)
                      /\ ScannedMask(f) = ScannedMask(v) => v <= f]_vars

\* LRU has replaced the page of frame 1 of three: frame 0 was touched last, and the
\* pages of frames 1 and 2 had both gone 8 accesses without a touch (masks 0)
C14_Witness ==
    /\ ~replacement
    /\ pc = "loop"
    /\ numFrames = 3
    /\ event.kind = "REPLACED"
    /\ event.frame = 1
    /\ access - touchedAt[<<event.oldJobId, event.oldPageNum>>] >= 8
    /\ access - touchedAt[Occupant(MMT, 2)] >= 8
    /\ access - touchedAt[Occupant(MMT, 0)] < 8

\* the page of the last access, once it has been served
Touched == <<event.jobId, event.pageNum>>

(***************************************************************************)
(* C15: after every hit and every load, into a free frame or into a        *)
(* replaced one, under either policy, the mask of the page touched has its *)
(* top bit 0x80 set and is strictly greater than the mask of every other   *)
(* resident page.                                                          *)
(***************************************************************************)
C15_TouchedMaskHighest ==
    pc = "loop" /\ event.kind \in {"HIT", "LOADED", "REPLACED"} =>
        /\ Row(JT, Touched).referenced >= MSB
        /\ \A r \in Resident(JT) \ {Touched} :
              Row(JT, r).referenced < Row(JT, Touched).referenced

(***************************************************************************)
(* C16: the aging pass runs exactly once per access and before the hit or  *)
(* fault decision: the mask of every page resident before the access, of   *)
(* any job and the requested page included, is shifted right by one, and   *)
(* the mask of a page that is not resident is left as it is.  What the     *)
(* access then does to the requested page and to the page evicted is       *)
(* applied to the aged masks.                                              *)
(***************************************************************************)
C16_AgingOncePerAccess ==
    [][IterationStep /\ event'.kind # "SKIP" =>
          \A q \in PagesOf(JT) :
              LET before == Row(JT, q).referenced
                  after == Row(JT', q).referenced
              IN  IF Row(JT, q).inMemory
                  THEN IF q = Drawn
                       THEN /\ event'.kind = "HIT"
                            /\ after = SetMSB(before \div 2)
                       ELSE IF q \in Evicted /\ ~replacement
                       THEN after = 0
                       ELSE after = before \div 2
                  ELSE IF q = Drawn /\ ~(replacement /\ event'.kind = "REPLACED")
                       THEN after = MSB
                       ELSE after = before]_vars

\* FIFO: a second hit in a row on a page (0x80 aged to 0x40, then touched: 0xC0)
\* while a page evicted keeps, unaged, the mask 0x40 it was evicted with
C16_Witness ==
    /\ pc = "loop"
    /\ replacement
    /\ event.kind = "HIT"
    /\ Row(JT, Touched).referenced = 192
    /\ \E q \in PagesOf(JT) : ~Row(JT, q).inMemory /\ Row(JT, q).referenced = 64

(***************************************************************************)
(* SpecWide: main with pages of size 1 and one job of up to MaxWidePages   *)
(* pages, so that a run can evict from every frame in turn without ever    *)
(* drawing a page twice.                                                   *)
(***************************************************************************)
MaxWidePages == 5
MaxWideAccesses == 5

InitWide ==
    /\ pageSize = 1
    /\ numFrames \in 1..MaxFrames
    /\ numAccesses \in 1..MaxWideAccesses
    /\ \E n \in 1..MaxWidePages : jobs = <<[id |-> 0, size |-> n]>>
    /\ pc = "call"
    /\ replacement = TRUE
    /\ recording = FALSE
    /\ script = <<>>
    /\ Blank

SpecWide == InitWide /\ [][Next]_vars

\* no (job, page) has been drawn more than once in the run so far
NoRepeats == access = Cardinality(Accessed)
\* a fault of the FIFO run with every frame busy
FIFOReplaceStep == ReplaceStep /\ replacement

(***************************************************************************)
(* C17: in a FIFO run in which no (job, page) is accessed more than once   *)
(* the frames chosen as victims are 0, 1, ..., numFrames-1, 0, 1, ... in   *)
(* turn, the order in which the frames were first loaded: the access       *)
(* numbered numFrames + k evicts from frame (k-1) mod numFrames.           *)
(***************************************************************************)
C17_FIFORoundRobin ==
    [][FIFOReplaceStep /\ NoRepeats' =>
          /\ VictimFrames = {event'.frame}
          /\ event'.frame = (access' - numFrames - 1) % numFrames
          /\ \A f \in BusyFrames(MMT) : loadedAt[Occupant(MMT, event'.frame)]
                                           <= loadedAt[Occupant(MMT, f)]]_vars

\* FIFO, two frames, five pages drawn once each: the third eviction is from
\* frame 0 again
C17_Witness ==
    /\ pc = "loop"
    /\ replacement
    /\ numFrames = 2
    /\ NoRepeats
    /\ access = 5
    /\ event.kind = "REPLACED"
    /\ event.frame = 0

(***************************************************************************)
(* C18: in a FIFO run, whatever the trace, the k-th eviction replaces the  *)
(* occupant of frame (k-1) mod numFrames.  Faults 1..numFrames of a run    *)
(* load free frames and every later fault evicts, so that the k-th         *)
(* eviction is the fault numbered numFrames + k.                           *)
(***************************************************************************)
C18_FIFOKthEviction ==
    [][IterationStep /\ replacement /\ pageFaults' = pageFaults + 1 =>
          /\ event'.kind = "REPLACED" <=> pageFaults >= numFrames
          /\ event'.kind = "LOADED" <=> pageFaults < numFrames
          /\ event'.kind = "REPLACED" =>
                LET k == pageFaults' - numFrames
                IN  /\ VictimFrames = {(k - 1) % numFrames}
                    /\ event'.frame = (k - 1) % numFrames
                    /\ Occupant(MMT, (k - 1) % numFrames)
                          = <<event'.oldJobId, event'.oldPageNum>>]_vars

\* FIFO, two frames: after a hit on the page of frame 0 the first eviction was
\* from frame 0 all the same, and the second has just been from frame 1
C18_Witness ==
    /\ pc = "loop"
    /\ replacement
    /\ numFrames = 2
    /\ pageHits > 0
    /\ pageFaults = 4
    /\ event.kind = "REPLACED"
    /\ event.frame = 1

\* the mask of resident page r when LRU scans at the next access
AgedMask(r) == Row(JT, r).referenced \div 2
\* the accesses since the last touch of r, the next access counted
Age(r) == (access + 1) - touchedAt[r]

(***************************************************************************)
(* C19: under LRU, when the victim is chosen, the mask of a resident page  *)
(* is 0 exactly when its last touch lies 8 or more accesses before the     *)
(* faulting access; of two pages with masks other than 0 the one with the  *)
(* larger mask was touched more recently; hence the victim is the least    *)
(* recently touched resident page whenever at most one resident page has   *)
(* gone 8 or more accesses without a touch.                                *)
(***************************************************************************)
C19_MaskOrdersRecency ==
    [][LRUReplaceStep =>
          /\ \A r \in Resident(JT) : AgedMask(r) = 0 <=> Age(r) >= 8
          /\ \A r, s \in Resident(JT) :
                AgedMask(r) # 0 /\ AgedMask(s) # 0 =>
                    (AgedMask(r) > AgedMask(s) <=> touchedAt[r] > touchedAt[s])
          /\ Cardinality({r \in Resident(JT) : Age(r) >= 8}) <= 1 =>
                \A v \in Evicted : \A r \in Resident(JT) \ {v} :
                    touchedAt[v] < touchedAt[r]]_vars

\* LRU, three frames: the page evicted had gone 8 accesses or more without a touch
\* (mask 0), the two pages that stay had not, and one of them had been touched
\* at the access before and earlier too (mask above 0x40)
C19_Witness ==
    /\ ~replacement
    /\ pc = "loop"
    /\ numFrames = 3
    /\ event.kind = "REPLACED"
    /\ access - touchedAt[<<event.oldJobId, event.oldPageNum>>] >= 8
    /\ \A r \in Resident(JT) \ {Touched} : access - touchedAt[r] < 8
    /\ \E r \in Resident(JT) \ {Touched} : Row(JT, r).referenced > 64

\* the busy frames of mmt are the frames 0..k-1 for some k
BusyPrefix(mmt) == BusyFrames(mmt) = 0..(Cardinality(BusyFrames(mmt)) - 1)

(***************************************************************************)
(* C20: under either policy the busy frames are always exactly the frames  *)
(* 0..k-1 for some k in 0..numFrames, and within a run a busy frame never  *)
(* becomes free again.                                                     *)
(***************************************************************************)
C20_BusyPrefix ==
    [][/\ BusyPrefix(MMT) /\ BusyPrefix(MMT')
       /\ Cardinality(BusyFrames(MMT')) <= numFrames
       /\ pc = "loop" /\ pc' # "call" =>
             /\ BusyFrames(MMT) \subseteq BusyFrames(MMT')
             /\ DOMAIN MMT' = 0..(numFrames - 1)]_vars

\* LRU, two frames: frame 0 is busy, frame 1 still free after a hit
C20_Witness ==
    /\ pc = "loop"
    /\ ~replacement
    /\ numFrames = 2
    /\ BusyFrames(MMT) = {0}
    /\ FreeFrames(MMT) = {1}
    /\ event.kind = "HIT"
=============================================================================
